---- MODULE Spec2Model ----
(***************************************************************************)
(* Model of api/app/main.py of GTM_Copilot: the module body that derives   *)
(* the CORS allow-list from the environment variable ALLOWED_ORIGINS and   *)
(* registers the CORS middleware, and the /health route.                   *)
(*                                                                         *)
(* A Python str is modelled as a sequence of one-character strings, so     *)
(* that split(",") and strip() are computed character by character.        *)
(***************************************************************************)
EXTENDS Naturals, Sequences, FiniteSets

VARIABLES
    env,          \* os.environ's ALLOWED_ORIGINS: [set, val]
    pc,           \* "import" before the module body has run, then "serving"
    allowed,      \* main.py:7
    origins,      \* main.py:8
    middleware,   \* keyword arguments given to app.add_middleware, main.py:10-16
    startupEnv,   \* history: the value env had when the module body ran
    response,     \* the last response sent
    firstHealth,  \* history: status and body of the first /health response
    healthCalls   \* history: number of /health requests served

vars ==
    <<env, pc, allowed, origins, middleware, startupEnv, response, firstHealth,
      healthCalls>>

(* ------------------------------ bounds -------------------------------- *)

\* longest ALLOWED_ORIGINS enumerated character by character
MaxLen == 4
\* most comma-separated segments of an ALLOWED_ORIGINS built from Segments
MaxPieces == 3
\* the same two bounds for the inputs of the runs that also serve requests
MaxServeLen == 2
MaxServePieces == 2
\* most /health requests followed
MaxHealthCalls == 2

(* ----------------------------- strings -------------------------------- *)

\* "http://localhost:3000"
DefaultOrigin ==
    <<"h","t","t","p",":","/","/","l","o","c","a","l","h","o","s","t",":","3","0","0","0">>

\* "https://a.com"
HttpsA == <<"h","t","t","p","s",":","/","/","a",".","c","o","m">>

\* "https://b.com"
HttpsB == <<"h","t","t","p","s",":","/","/","b",".","c","o","m">>

\* "*"
Star == <<"*">>

\* characters str.strip() removes that the model's inputs use
Whitespace == {" ", "\t", "\n", "\r", "\f"}

\* characters of the inputs enumerated character by character
Alphabet == {"a", "*", ",", " ", "\t"}

\* segments of the inputs enumerated segment by segment
Segments == { <<>>, <<" ", "\t">>, DefaultOrigin, HttpsA, <<" ">> \o HttpsB, Star }

StringsUpTo(n) == UNION { [1..k -> Alphabet] : k \in 0..n }

RECURSIVE Join(_)
Join(segs) ==
    IF Len(segs) = 1 THEN segs[1]
    ELSE segs[1] \o <<",">> \o Join(Tail(segs))

SegmentStrings(n) == { Join(segs) : segs \in UNION { [1..k -> Segments] : k \in 1..n } }

Unset == [set |-> FALSE, val |-> <<>>]
SetTo(s) == [set |-> TRUE, val |-> s]

\* values of ALLOWED_ORIGINS at process start
EnvValues(len, pieces) ==
    {Unset} \cup { SetTo(s) : s \in StringsUpTo(len) \cup SegmentStrings(pieces) }

\* values a later change of the environment gives the variable
EnvChanges == { Unset, SetTo(<<"b">>) }

(* --------------------------- the module body --------------------------- *)

\* os.getenv(name, default)
getenv(e, default) == IF e.set THEN e.val ELSE default

\* str.split(","): the pieces between the commas, empty pieces kept
RECURSIVE split(_)
split(s) ==
    IF \A i \in 1..Len(s) : s[i] # ","
    THEN <<s>>
    ELSE LET i == CHOOSE k \in 1..Len(s) :
                      s[k] = "," /\ \A j \in 1..(k-1) : s[j] # ","
         IN  <<SubSeq(s, 1, i-1)>> \o split(SubSeq(s, i+1, Len(s)))

RECURSIVE lstrip(_)
lstrip(s) ==
    IF s # <<>> /\ Head(s) \in Whitespace THEN lstrip(Tail(s)) ELSE s

RECURSIVE rstrip(_)
rstrip(s) ==
    IF s # <<>> /\ s[Len(s)] \in Whitespace
    THEN rstrip(SubSeq(s, 1, Len(s)-1))
    ELSE s

\* mutant: only leading whitespace is removed
strip_LeftOnly(s) == lstrip(s)

\* str.strip()
strip(s) == rstrip(lstrip(s))

\* [o.strip() for o in pieces if o.strip()]
RECURSIVE comprehension(_)
comprehension(pieces) ==
    IF pieces = <<>> THEN <<>>
    ELSE LET o == Head(pieces)
         IN  (IF strip(o) # <<>> THEN <<strip(o)>> ELSE <<>>)
                 \o comprehension(Tail(pieces))

\* mutant: the comprehension without its filter
BuildOrigins_KeepEmpty(a) == [ i \in 1..Len(split(a)) |-> strip(split(a)[i]) ]

RECURSIVE dedup(_)
dedup(seq) ==
    IF seq = <<>> THEN <<>>
    ELSE LET rest == dedup(SubSeq(seq, 1, Len(seq)-1))
             x == seq[Len(seq)]
         IN  IF \E i \in 1..Len(rest) : rest[i] = x THEN rest ELSE Append(rest, x)

\* mutant: repeated origins are dropped
BuildOrigins_Dedup(a) == dedup(comprehension(split(a)))

\* main.py:8
BuildOrigins(a) == comprehension(split(a))

\* mutant: no fallback
OrDefault_NoFallback(o) == o

\* mutant: the default is added to the list
OrDefault_Append(o) == o \o <<DefaultOrigin>>

\* origins or ["http://localhost:3000"]
OrDefault(o) == IF o # <<>> THEN o ELSE <<DefaultOrigin>>

\* mutant: credentials not allowed
add_middleware_NoCredentials(o) ==
    [ allow_origins     |-> OrDefault(o),
      allow_credentials |-> FALSE,
      allow_methods     |-> <<Star>>,
      allow_headers     |-> <<Star>> ]

\* app.add_middleware(CORSMiddleware, ...)
add_middleware(o) ==
    [ allow_origins     |-> OrDefault(o),
      allow_credentials |-> TRUE,
      allow_methods     |-> <<Star>>,
      allow_headers     |-> <<Star>> ]

NoMiddleware ==
    [ allow_origins     |-> <<>>,
      allow_credentials |-> FALSE,
      allow_methods     |-> <<>>,
      allow_headers     |-> <<>> ]

NoOrigin == [set |-> FALSE, val |-> <<>>]
Origin(o) == [set |-> TRUE, val |-> o]

NoResponse ==
    [ kind |-> "none", origin |-> NoOrigin, status |-> 0, body |-> [text |-> ""],
      granted |-> FALSE ]

NoHealth == [ status |-> 0, body |-> [text |-> ""] ]

Range(f) == { f[i] : i \in DOMAIN f }

(* ------------------------------ requests ------------------------------- *)

\* mutant: another body
health_Degraded == [status |-> "error"]

\* def health(): return {"status": "ok"}
health == [status |-> "ok"]

\* The decision of the registered CORSMiddleware (the framework class named at
\* main.py:11, whose code is the framework's and not this repository's) for a
\* request's Origin, given the allow_origins of main.py:12: its standard
\* behaviour is that the entry "*" admits every origin, and that any other
\* origin is admitted when it equals an entry.
allow_all_origins == Star \in Range(middleware.allow_origins)

\* mutant: "*" is an entry like any other
is_allowed_origin_ExactOnly(origin) == origin \in Range(middleware.allow_origins)

is_allowed_origin(origin) ==
    \/ allow_all_origins
    \/ origin \in Range(middleware.allow_origins)

\* Origin headers of the requests followed: none, each registered origin, and
\* two fixed ones
RequestOrigins ==
    {NoOrigin} \cup
    { Origin(o) : o \in Range(middleware.allow_origins) \cup {DefaultOrigin, HttpsA} }

Start(values) ==
    /\ env \in values
    /\ pc = "import"
    /\ allowed = <<>>
    /\ origins = <<>>
    /\ middleware = NoMiddleware
    /\ startupEnv = Unset
    /\ response = NoResponse
    /\ firstHealth = NoHealth
    /\ healthCalls = 0

Init == Start(EnvValues(MaxServeLen, MaxServePieces))

\* the module body, run once when the server imports the application
Startup ==
    /\ pc = "import"
    /\ allowed' = getenv(env, DefaultOrigin)
    /\ origins' = BuildOrigins(allowed')
    /\ middleware' = add_middleware(origins')
    /\ startupEnv' = env
    /\ pc' = "serving"
    /\ UNCHANGED <<env, response, firstHealth, healthCalls>>

\* mutant: the handler counts its calls and reports the count
GetHealth_Counting(o) ==
    /\ pc = "serving"
    /\ healthCalls < MaxHealthCalls
    /\ response' =
           [ kind    |-> "GET /health",
             origin  |-> o,
             status  |-> 200,
             body    |-> [status |-> IF healthCalls = 0 THEN "ok" ELSE "ok again"],
             granted |-> o.set /\ is_allowed_origin(o.val) ]
    /\ firstHealth' =
           IF healthCalls = 0
           THEN [ status |-> response'.status, body |-> response'.body ]
           ELSE firstHealth
    /\ healthCalls' = healthCalls + 1
    /\ UNCHANGED <<env, pc, allowed, origins, middleware, startupEnv>>

\* GET /health, with or without an Origin header: the route's handler runs
\* and the middleware adds the CORS grant when the origin is allowed
GetHealth(o) ==
    /\ pc = "serving"
    /\ healthCalls < MaxHealthCalls
    /\ response' =
           [ kind    |-> "GET /health",
             origin  |-> o,
             status  |-> 200,
             body    |-> health,
             granted |-> o.set /\ is_allowed_origin(o.val) ]
    /\ firstHealth' =
           IF healthCalls = 0
           THEN [ status |-> response'.status, body |-> response'.body ]
           ELSE firstHealth
    /\ healthCalls' = healthCalls + 1
    /\ UNCHANGED <<env, pc, allowed, origins, middleware, startupEnv>>

\* OPTIONS /health with Origin and Access-Control-Request-Method: the CORS
\* preflight, answered by the middleware
Preflight(o) ==
    /\ pc = "serving"
    /\ o.set
    /\ response' =
           IF is_allowed_origin(o.val)
           THEN [ kind |-> "OPTIONS /health", origin |-> o, status |-> 200,
                  body |-> [text |-> "OK"], granted |-> TRUE ]
           ELSE [ kind |-> "OPTIONS /health", origin |-> o, status |-> 400,
                  body |-> [text |-> "Disallowed CORS origin"], granted |-> FALSE ]
    /\ UNCHANGED <<env, pc, allowed, origins, middleware, startupEnv, firstHealth,
                   healthCalls>>

\* mutant: the allow-list is derived again when the variable changes
SetEnv_Reload(v) ==
    /\ pc = "serving"
    /\ env = startupEnv
    /\ v # env
    /\ env' = v
    /\ allowed' = getenv(v, DefaultOrigin)
    /\ origins' = BuildOrigins(allowed')
    /\ middleware' = add_middleware(origins')
    /\ UNCHANGED <<pc, startupEnv, response, firstHealth, healthCalls>>

\* the environment variable is changed while the process serves
SetEnv(v) ==
    /\ pc = "serving"
    /\ env = startupEnv
    /\ v # env
    /\ env' = v
    /\ UNCHANGED <<pc, allowed, origins, middleware, startupEnv, response,
                   firstHealth, healthCalls>>

Next ==
    \/ Startup
    \/ \E o \in RequestOrigins : GetHealth(o)
    \/ \E o \in RequestOrigins : Preflight(o)
    \/ \E v \in EnvChanges : SetEnv(v)

Spec == Init /\ [][Next]_vars

\* the derivation alone, over the larger set of inputs
BuildInit == Start(EnvValues(MaxLen, MaxPieces))

BuildNext == Startup

BuildSpec == BuildInit /\ [][BuildNext]_vars

(* ---------------- the input, described independently of split ---------- *)

IsSpace(c) == c \in Whitespace

CommaAt(s) == { i \in 1..Len(s) : s[i] = "," }

NumPieces(s) == Cardinality(CommaAt(s)) + 1

\* position of the k-th comma of s; 0 before the first piece, Len(s)+1 after
\* the last
KthComma(s, k) ==
    IF k = 0 THEN 0
    ELSE IF k = NumPieces(s) THEN Len(s) + 1
    ELSE CHOOSE i \in CommaAt(s) : Cardinality({ j \in CommaAt(s) : j <= i }) = k

\* the k-th comma-separated piece of s
Piece(s, k) == SubSeq(s, KthComma(s, k-1) + 1, KthComma(s, k) - 1)

\* p without its leading and trailing whitespace
Trimmed(p) ==
    LET solid == { i \in 1..Len(p) : ~IsSpace(p[i]) }
    IN  IF solid = {} THEN <<>>
        ELSE SubSeq(p, CHOOSE i \in solid : \A j \in solid : i <= j,
                       CHOOSE i \in solid : \A j \in solid : j <= i)

\* indices of the pieces of s that are non-empty after trimming
KeptPieces(s) == { k \in 1..NumPieces(s) : Trimmed(Piece(s, k)) # <<>> }

\* the i-th of them
KthKept(s, i) ==
    CHOOSE k \in KeptPieces(s) : Cardinality({ j \in KeptPieces(s) : j <= k }) = i

\* the non-empty trimmed pieces of s, in the input's order
TrimmedPieces(s) ==
    [ i \in 1..Cardinality(KeptPieces(s)) |-> Trimmed(Piece(s, KthKept(s, i))) ]

Occurrences(seq, x) == Cardinality({ i \in 1..Len(seq) : seq[i] = x })

Serving == pc = "serving"

\* "https://a.com, https://b.com"
ExampleInput == HttpsA \o <<",", " ">> \o HttpsB

(* ------------------------------- claims -------------------------------- *)

\* C1: if ALLOWED_ORIGINS is unset, empty, or made of commas and whitespace
\* only, the allow_origins handed to the CORS middleware is exactly
\* ["http://localhost:3000"].
C1_FallbackToDefault ==
    (Serving /\ ( \/ ~startupEnv.set
                  \/ \A i \in 1..Len(startupEnv.val) :
                         startupEnv.val[i] = "," \/ IsSpace(startupEnv.val[i]) ))
        => middleware.allow_origins = <<DefaultOrigin>>

\* C1 witness: the variable was set to commas and whitespace, and the default
\* was registered.
C1_Witness ==
    /\ Serving
    /\ startupEnv.set
    /\ \E i \in 1..Len(startupEnv.val) : startupEnv.val[i] = ","
    /\ \E i \in 1..Len(startupEnv.val) : IsSpace(startupEnv.val[i])
    /\ \A i \in 1..Len(startupEnv.val) :
           startupEnv.val[i] = "," \/ IsSpace(startupEnv.val[i])
    /\ middleware.allow_origins = <<DefaultOrigin>>

\* C2: the derived allow-list has no empty entry, and its entries are the
\* non-empty trimmed pieces of the input in the input's order.
C2_NoEmptyOrderKept ==
    Serving =>
        /\ \A i \in 1..Len(origins) : origins[i] # <<>>
        /\ \A i \in 1..Len(middleware.allow_origins) :
               middleware.allow_origins[i] # <<>>
        /\ startupEnv.set =>
               /\ Len(origins) = Cardinality(KeptPieces(startupEnv.val))
               /\ \A i \in 1..Len(origins) :
                      origins[i] = Trimmed(Piece(startupEnv.val, KthKept(startupEnv.val, i)))

\* C2 witness: an input with an empty piece between two different non-empty
\* ones, kept in order.
C2_Witness ==
    /\ Serving
    /\ startupEnv.set
    /\ NumPieces(startupEnv.val) = 3
    /\ KeptPieces(startupEnv.val) = {1, 3}
    /\ Len(origins) = 2
    /\ origins[1] # origins[2]
    /\ origins[1] = Trimmed(Piece(startupEnv.val, 1))

\* C3: every entry of the derived allow-list is a comma-separated piece of
\* the input without its leading and trailing whitespace: it has no comma and
\* neither starts nor ends with whitespace; "https://a.com, https://b.com"
\* gives ["https://a.com", "https://b.com"].
C3_EntriesAreTrimmedPieces ==
    Serving =>
        /\ \A i \in 1..Len(origins) :
               LET e == origins[i]
               IN  /\ \A j \in 1..Len(e) : e[j] # ","
                   /\ e # <<>> => (~IsSpace(e[1]) /\ ~IsSpace(e[Len(e)]))
                   /\ startupEnv.set =>
                          \E k \in 1..NumPieces(startupEnv.val) :
                              e = Trimmed(Piece(startupEnv.val, k))
        /\ startupEnv = SetTo(ExampleInput) =>
               /\ origins = <<HttpsA, HttpsB>>
               /\ middleware.allow_origins = <<HttpsA, HttpsB>>

\* C3 witness: the example input has been read and its second piece trimmed.
C3_Witness ==
    /\ Serving
    /\ startupEnv = SetTo(ExampleInput)
    /\ Piece(startupEnv.val, 2) = <<" ">> \o HttpsB
    /\ origins = <<HttpsA, HttpsB>>

\* C4: every response to GET /health is 200 with body {"status": "ok"},
\* whatever ALLOWED_ORIGINS was and whatever Origin the request carries.
C4_HealthAlwaysOk ==
    response.kind = "GET /health" =>
        /\ response.status = 200
        /\ response.body = [status |-> "ok"]

\* C4 witness: /health answered a request whose Origin is not in the
\* allow-list and was given no CORS grant.
C4_Witness ==
    /\ response.kind = "GET /health"
    /\ response.origin.set
    /\ response.origin.val \notin Range(middleware.allow_origins)
    /\ ~response.granted
    /\ response.status = 200
    /\ startupEnv.set

C6_HealthIdempotent ==
    [][ (\E o \in RequestOrigins : GetHealth(o)) =>
            /\ UNCHANGED <<env, pc, allowed, origins, middleware, startupEnv>>
            /\ healthCalls > 0 =>
                   /\ response'.status = firstHealth.status
                   /\ response'.body = firstHealth.body
                   /\ firstHealth' = firstHealth ]_vars

\* C6 witness: /health has been called twice and the second response equals
\* the first.
C6_Witness ==
    /\ healthCalls = 2
    /\ response.kind = "GET /health"
    /\ response.status = firstHealth.status
    /\ response.body = firstHealth.body

\* C7: no deduplication: a string that is the trimmed form of k pieces occurs
\* k times in the allow-list, each at the position of its piece among the
\* non-empty ones, and the list is as long as the number of non-empty trimmed
\* pieces when there is at least one.
C7_NoDedup ==
    (Serving /\ startupEnv.set /\ KeptPieces(startupEnv.val) # {}) =>
        LET s == startupEnv.val
            list == middleware.allow_origins
        IN  /\ Len(list) = Cardinality(KeptPieces(s))
            /\ \A k \in KeptPieces(s) :
                   /\ Occurrences(list, Trimmed(Piece(s, k))) =
                          Cardinality({ j \in KeptPieces(s) :
                                          Trimmed(Piece(s, j)) = Trimmed(Piece(s, k)) })
                   /\ list[Cardinality({ j \in KeptPieces(s) : j <= k })] =
                          Trimmed(Piece(s, k))

\* C7 witness: the same origin was given twice and is registered twice.
C7_Witness ==
    /\ Serving
    /\ startupEnv.set
    /\ Len(middleware.allow_origins) >= 2
    /\ \E i, j \in 1..Len(middleware.allow_origins) :
           i # j /\ middleware.allow_origins[i] = middleware.allow_origins[j]

\* C8: the registered policy has the derived allow-list (origins, or the
\* default when origins is empty) as allow_origins, allows credentials, and
\* allows all methods and all headers.
C8_PolicyRegistered ==
    Serving =>
        /\ middleware.allow_origins = (IF Len(origins) = 0 THEN <<DefaultOrigin>> ELSE origins)
        /\ middleware.allow_credentials = TRUE
        /\ middleware.allow_methods = <<Star>>
        /\ middleware.allow_headers = <<Star>>

\* C8 witness: a policy registered from an input naming two origins.
C8_Witness ==
    /\ Serving
    /\ Len(origins) = 2
    /\ middleware.allow_origins = origins
    /\ middleware.allow_credentials

\* C9: after startup the allow-list in force is the one derived from the
\* value ALLOWED_ORIGINS had at startup, whatever requests were served and
\* whatever the variable was changed to since.
C9_AllowListFixedAtStartup ==
    Serving =>
        /\ allowed = (IF startupEnv.set THEN startupEnv.val ELSE DefaultOrigin)
        /\ middleware.allow_origins =
               (IF startupEnv.set /\ KeptPieces(startupEnv.val) # {}
                THEN TrimmedPieces(startupEnv.val)
                ELSE <<DefaultOrigin>>)

\* C9 witness: the variable was changed after startup to a value that derives
\* another allow-list, and a request was served afterwards.
C9_Witness ==
    /\ Serving
    /\ env # startupEnv
    /\ env.set
    /\ TrimmedPieces(env.val) # middleware.allow_origins
    /\ response.kind = "GET /health"
    /\ healthCalls = 2

\* C10: the default is a fallback, never an addition: when the input has a
\* non-empty trimmed piece the registered list is exactly those pieces, and it
\* holds the default only if the default is one of them; the registered list
\* is never empty.
C10_DefaultOnlyFallback ==
    Serving =>
        /\ middleware.allow_origins # <<>>
        /\ (startupEnv.set /\ KeptPieces(startupEnv.val) # {}) =>
               /\ middleware.allow_origins = TrimmedPieces(startupEnv.val)
               /\ DefaultOrigin \in Range(middleware.allow_origins) =>
                      \E k \in 1..NumPieces(startupEnv.val) :
                          Trimmed(Piece(startupEnv.val, k)) = DefaultOrigin

\* C10 witness: an input with non-empty pieces, none of them the default, and
\* a registered list without the default.
C10_Witness ==
    /\ Serving
    /\ startupEnv.set
    /\ KeptPieces(startupEnv.val) # {}
    /\ DefaultOrigin \notin Range(middleware.allow_origins)
    /\ Len(middleware.allow_origins) = Cardinality(KeptPieces(startupEnv.val))
====
